---- MODULE Spec2Model ----
(***************************************************************************)
(* AICodeBot: the model tier selector (Coder.get_llm_model_name) and the   *)
(* sidekick command loop (commands/sidekick.py), as a state machine.       *)
(***************************************************************************)
EXTENDS Integers, Sequences, FiniteSets, TLC

VARIABLES
    pc,                 \* position of the sidekick command (or of a selector call)
    request,            \* the -r/--request option: NoRequest or an input
    files_arg,          \* the FILES argument
    no_files,           \* the -n/--no-files flag
    auto_files,         \* what Coder.auto_file_context would select
    session_files,      \* the "files" entry of the persisted Session Store
    openrouter,         \* "openrouter_api_key" in config
    engines,            \* the engine ids the provider reports for the key
    chat_files,         \* chat.files
    completer_files,    \* completer.files
    context,            \* the file set the current context text was built from
    request_token_size, \* request_token_size
    model_name,         \* model_name
    current_model_name, \* current_model_name
    langchain_model,    \* the model name langchain_model was built for
    chain,              \* chain: the handle's model and the memory attached to it
    memory,             \* the memory object the local `memory` refers to
    exchanges,          \* exchanges[m]: completed exchanges recorded in memory object m
    turn_exchanges,     \* history: exchanges at the start of the current turn
    writes,             \* history: the values passed to Session.write, in order
    reads,              \* history: number of input_prompt calls
    dispatches,         \* history: number of chain.run calls
    completions,        \* history: number of chain.run calls that returned
    log,                \* history: one record per step of the loop
    turns,              \* number of loop iterations started
    calls,              \* history: calls of Session.read, auto_file_context, choose_model
    git,                \* a call of Coder.git_diff_context and the backend it runs against
    tree,               \* a call of Coder.generate_directory_structure and its directory
    provider            \* the config, the provider and the engine cache of the process

vars == <<pc, request, files_arg, no_files, auto_files, session_files, openrouter,
          engines, chat_files, completer_files, context, request_token_size,
          model_name, current_model_name, langchain_model, chain, memory,
          exchanges, turn_exchanges, writes, reads, dispatches, completions,
          log, turns, calls, git, tree, provider>>

\* The state of the sidekick command.
loop == <<pc, request, files_arg, no_files, auto_files, session_files, openrouter,
          engines, chat_files, completer_files, context, request_token_size,
          model_name, current_model_name, langchain_model, chain, memory,
          exchanges, turn_exchanges, writes, reads, dispatches, completions,
          log, turns, calls>>

\* The state of the calls that are modelled on their own.
side == <<git, tree, provider>>

--------------------------------------------------------------------------
(* Bounds *)

MaxTurns == 3
MaxDelta == 2

\* History counters stop counting, and the log keeps its last records, beyond
\* what MaxTurns turns can produce.
MaxCount == 2 * MaxTurns + 2
Count(n) == IF n < MaxCount THEN n + 1 ELSE n
Record(l, e) == IF Len(l) < MaxCount THEN Append(l, e) ELSE Append(Tail(l), e)

--------------------------------------------------------------------------
(* Values *)

None == "None"
NoRequest == [kind |-> "none"]
\* Session.read() has no "files" key (a set that is no set of file names).
Absent == {"<no files key>"}

FileNames == {"a.py", "b.py"}

\* Engine ids a provider can report: the four of the direct table and one
\* that no table configures.
EngineNames == {"gpt-4", "gpt-4-32k", "gpt-3.5-turbo", "gpt-3.5-turbo-16k",
                "text-davinci-003"}

--------------------------------------------------------------------------
(* Coder.get_llm_model_name *)

\* The tier table, in the dict's insertion order.
model_options(router) ==
    IF router
    THEN << <<"openai/gpt-4", 8192>>, <<"openai/gpt-4-32k", 32768>> >>
    ELSE << <<"gpt-4", 8192>>, <<"gpt-4-32k", 32768>>,
            <<"gpt-3.5-turbo", 4096>>, <<"gpt-3.5-turbo-16k", 16384>> >>

TierNames(router) == {model_options(router)[i][1] : i \in DOMAIN model_options(router)}

supported_engines(router, reported) ==
    IF router THEN TierNames(router) ELSE reported

\* int(token_size * 1.05): the product truncated to an integer.
buffer_unbuffered(token_size) == token_size
buffer(token_size) == (token_size * 105) \div 100

tier_fits_any_engine(model, max_tokens, supported, token_size) ==
    token_size <= max_tokens
tier_fits(model, max_tokens, supported, token_size) ==
    model \in supported /\ token_size <= max_tokens

\* The for loop: the first tier in table order that passes the test.
RECURSIVE first_fit(_, _, _, _)
first_fit(options, supported, token_size, i) ==
    IF i > Len(options) THEN None
    ELSE IF tier_fits(options[i][1], options[i][2], supported, token_size)
         THEN options[i][1]
         ELSE first_fit(options, supported, token_size, i + 1)

get_llm_model_name(router, reported, token_size) ==
    first_fit(model_options(router), supported_engines(router, reported),
              buffer(token_size), 1)

--------------------------------------------------------------------------
(* Collaborators of the sidekick command that live outside coder.py *)

PromptTokens == 500
DEFAULT_MEMORY_TOKENS == 1024

FileTokens(f) == IF f = "a.py" THEN 4000 ELSE 28000

RECURSIVE SumTokens(_)
SumTokens(S) ==
    IF S = {} THEN 0
    ELSE LET f == CHOOSE x \in S : TRUE IN FileTokens(f) + SumTokens(S \ {f})

\* generate_files_context(files), kept as the file set it renders.
generate_files_context(files) == files

\* get_token_size(context)
get_token_size(ctx) == SumTokens(ctx)

\* lmm.choose_model(request_token_size): the Model Tier Selector.
choose_model(router, reported, token_size) ==
    get_llm_model_name(router, reported, token_size)

\* lmm.get_langchain_chain(langchain_model, prompt, memory)
get_langchain_chain(model, mem) == [model |-> model, memory |-> mem]

\* What the user can type (or pass with -r), as chat.parse_human_input sees it.
Inputs ==
    {[kind |-> "text"], [kind |-> "quit"], [kind |-> "empty"]}
    \cup {[kind |-> k, file |-> f] : k \in {"add", "drop"}, f \in FileNames}

\* chat.parse_human_input: its result in {FreeText, Terminate, Continue} ...
parse_result(inp) ==
    CASE inp.kind = "text" -> "FreeText"
      [] inp.kind = "quit" -> "BREAK"
      [] OTHER -> "CONTINUE"

\* ... and its effect on chat.files.
parse_files(inp, cf) ==
    CASE inp.kind = "add" -> cf \cup {inp.file}
      [] inp.kind = "drop" -> cf \ {inp.file}
      [] OTHER -> cf

--------------------------------------------------------------------------
(* sidekick: setup, lines 32-82 *)

\* Session.read().get("files") is truthy.
session_has_files(persisted) == persisted # Absent /\ persisted # {}

initial_files_session_first(explicit, nofiles, persisted, auto) ==
    IF ~nofiles /\ session_has_files(persisted) THEN persisted
    ELSE IF explicit # {} THEN explicit
    ELSE IF ~nofiles THEN auto ELSE {}
initial_files(explicit, nofiles, persisted, auto) ==
    IF explicit # {} THEN explicit
    ELSE IF ~nofiles
         THEN IF session_has_files(persisted) THEN persisted ELSE auto
         ELSE {}

calculate_request_token_size(ctx) ==
    PromptTokens + get_token_size(ctx) + DEFAULT_MEMORY_TOKENS

\* Lines 34-48 and 64: what the setup calls. Session.read is called only on
\* the branch without explicit files and without --no-files, and
\* Coder.auto_file_context only when that read finds no files.
setup_calls(explicit, nofiles, persisted) ==
    [session_read |-> IF explicit = {} /\ ~nofiles THEN 1 ELSE 0,
     auto_file_context |->
        IF explicit = {} /\ ~nofiles /\ ~session_has_files(persisted) THEN 1 ELSE 0,
     choose_model |-> 1]

TypeOK ==
    /\ pc \in {"Init", "AwaitingInput", "Processing", "Terminated", "Crashed",
              "SelCall", "SelDone", "Idle"}
    /\ request \in Inputs \cup {NoRequest}
    /\ chat_files \subseteq FileNames
    /\ completer_files \subseteq FileNames
    /\ session_files \in {Absent} \cup SUBSET FileNames
    /\ turns \in 0..MaxTurns

\* The provider configurations a run is started under.
Providers ==
    { [router |-> TRUE,  reported |-> {}],
      [router |-> FALSE, reported |-> EngineNames],
      [router |-> FALSE, reported |-> {"gpt-3.5-turbo", "gpt-3.5-turbo-16k"}],
      [router |-> FALSE, reported |-> {"text-davinci-003"}] }

\* The calls modelled on their own are not under way.
Idle == [phase |-> "idle"]
SideIdle == git = Idle /\ tree = Idle /\ provider = Idle

\* State of the loop's locals before the command body has run.
Blank ==
    /\ chat_files = {}
    /\ completer_files = {}
    /\ context = {}
    /\ model_name = None
    /\ current_model_name = None
    /\ langchain_model = None
    /\ chain = [model |-> None, memory |-> 0]
    /\ memory = 0
    /\ exchanges = [m \in {1, 2} |-> 0]
    /\ turn_exchanges = [m \in {1, 2} |-> 0]
    /\ writes = << >>
    /\ log = << >>
    /\ reads = 0
    /\ dispatches = 0
    /\ completions = 0
    /\ turns = 0
    /\ calls = [session_read |-> 0, auto_file_context |-> 0, choose_model |-> 0]

Init ==
    /\ pc = "Init"
    /\ request \in Inputs \cup {NoRequest}
    /\ files_arg \in SUBSET FileNames
    /\ no_files \in BOOLEAN
    /\ auto_files \in SUBSET FileNames
    /\ session_files \in {Absent} \cup SUBSET FileNames
    /\ \E p \in Providers : openrouter = p.router /\ engines = p.reported
    /\ request_token_size = 0
    /\ Blank
    /\ SideIdle

Setup ==
    /\ pc = "Init"
    /\ LET files == initial_files(files_arg, no_files, session_files, auto_files)
           ctx == generate_files_context(files)
           size == calculate_request_token_size(ctx)
           name == choose_model(openrouter, engines, size)
       IN /\ context' = ctx
          /\ request_token_size' = size
          /\ model_name' = name
          /\ langchain_model' = name
          /\ memory' = 1
          /\ chain' = get_langchain_chain(name, 1)
          /\ chat_files' = files
          /\ completer_files' = files
          /\ current_model_name' = name
    /\ calls' = setup_calls(files_arg, no_files, session_files)
    /\ pc' = "AwaitingInput"
    /\ UNCHANGED <<side, request, files_arg, no_files, auto_files, session_files, openrouter,
                   engines, exchanges, turn_exchanges, writes, log, reads, dispatches,
                   completions, turns>>

--------------------------------------------------------------------------
(* sidekick: the while loop, lines 83-138 *)

\* Line 96: completer.files != chat.files
files_changed_always(completer, chat) == TRUE
files_changed_inverted(completer, chat) == completer = chat
files_changed(completer, chat) == completer # chat

\* Line 116: model_name != current_model_name
model_changed_never(name, current) == FALSE
model_changed(name, current) == name # current

\* Line 122: the chain rebuilt for the new model, with the loop's memory.
rebuild_chain_fresh_memory(model, mem) == get_langchain_chain(model, mem + 1)
rebuild_chain(model, mem) == get_langchain_chain(model, mem)

\* Lines 136-138: a run given a request stops after the turn.
run_once_never(req) == FALSE
run_once(req) == req # NoRequest

\* Lines 84-87: the turn's input; only an interactive run reads the terminal.
TakeInput(inp) ==
    /\ pc = "AwaitingInput"
    /\ turns' = (turns + 1) % (MaxTurns + 1)
    /\ IF request # NoRequest
       THEN inp = request /\ reads' = reads
       ELSE reads' = Count(reads)

\* Lines 93-100: the context rebuilt, the file set persisted when it changed.
SyncFiles(inp) ==
    /\ chat_files' = parse_files(inp, chat_files)
    /\ context' = generate_files_context(chat_files')
    /\ IF files_changed(completer_files, chat_files')
       THEN /\ completer_files' = chat_files'
            /\ session_files' = chat_files'
            /\ writes' = Append(writes, chat_files')
       ELSE UNCHANGED <<completer_files, session_files, writes>>

\* Line 98: Session.read is called again before each write.
sync_calls ==
    IF files_changed(completer_files, chat_files')
    THEN [calls EXCEPT !.session_read = Count(@)]
    ELSE calls

Entry(ev, inp) ==
    [ev |-> ev, kind |-> inp.kind, before |-> chat_files, after |-> chat_files',
     wrote |-> Len(writes') - Len(writes), selected |-> model_name',
     rebuilt |-> (ev = "text" /\ model_changed(model_name', current_model_name))]

\* Lines 89-91: the input parses to BREAK.
TurnBreak ==
    \E inp \in Inputs :
        /\ TakeInput(inp)
        /\ parse_result(inp) = "BREAK"
        /\ pc' = "Terminated"
        /\ UNCHANGED <<chat_files, writes, model_name, calls>>
        /\ log' = Record(log, Entry("break", inp))
        /\ UNCHANGED <<side, request, files_arg, no_files, auto_files, session_files,
                       openrouter, engines, completer_files, context,
                       request_token_size, current_model_name,
                       langchain_model, chain, memory, exchanges, turn_exchanges,
                       dispatches, completions>>

\* Lines 89-103: the input parses to CONTINUE.
TurnContinue ==
    \E inp \in Inputs :
        /\ TakeInput(inp)
        /\ parse_result(inp) = "CONTINUE"
        /\ SyncFiles(inp)
        /\ pc' = "AwaitingInput"
        /\ calls' = sync_calls
        /\ UNCHANGED model_name
        /\ log' = Record(log, Entry("continue", inp))
        /\ UNCHANGED <<side, request, files_arg, no_files, auto_files, openrouter, engines,
                       request_token_size, current_model_name,
                       langchain_model, chain, memory, exchanges, turn_exchanges,
                       dispatches, completions>>

\* Lines 89-130: free text; the model chosen, the handle rebuilt on a change
\* of model, and chain.run called.
TurnText ==
    \E inp \in Inputs :
        /\ TakeInput(inp)
        /\ parse_result(inp) = "FreeText"
        /\ SyncFiles(inp)
        /\ request_token_size' = calculate_request_token_size(context')
        /\ model_name' = choose_model(openrouter, engines, request_token_size')
        /\ IF model_changed(model_name', current_model_name)
           THEN /\ langchain_model' = model_name'
                /\ chain' = rebuild_chain(model_name', memory)
                /\ current_model_name' = model_name'
                /\ calls' = [sync_calls EXCEPT !.choose_model = Count(Count(@))]
           ELSE /\ UNCHANGED <<langchain_model, chain, current_model_name>>
                /\ calls' = [sync_calls EXCEPT !.choose_model = Count(@)]
        /\ turn_exchanges' = exchanges
        /\ dispatches' = Count(dispatches)
        /\ pc' = "Processing"
        /\ log' = Record(log, Entry("text", inp))
        /\ UNCHANGED <<side, request, files_arg, no_files, auto_files, openrouter, engines,
                       memory, exchanges, completions>>

Outcome(ev) ==
    [ev |-> ev, kind |-> "text", before |-> chat_files, after |-> chat_files,
     wrote |-> 0, selected |-> model_name, rebuilt |-> FALSE]

\* Line 130 returns: the exchange is saved in the memory attached to the chain;
\* lines 136-138 then end a run that was given a request.
DispatchComplete ==
    /\ pc = "Processing"
    /\ exchanges' = [exchanges EXCEPT ![chain.memory] = @ + 1]
    /\ completions' = Count(completions)
    /\ pc' = IF run_once(request) THEN "Terminated" ELSE "AwaitingInput"
    /\ log' = Record(log, Outcome("complete"))
    /\ UNCHANGED <<side, request, files_arg, no_files, auto_files, session_files, openrouter,
                   engines, chat_files, completer_files, context, request_token_size,
                   model_name, current_model_name, langchain_model, chain, memory,
                   turn_exchanges, writes, reads, dispatches, turns, calls>>

\* Lines 132-134: KeyboardInterrupt during chain.run; continue.
DispatchInterrupt ==
    /\ pc = "Processing"
    /\ pc' = "AwaitingInput"
    /\ log' = Record(log, Outcome("interrupt"))
    /\ UNCHANGED <<side, request, files_arg, no_files, auto_files, session_files, openrouter,
                   engines, chat_files, completer_files, context, request_token_size,
                   model_name, current_model_name, langchain_model, chain, memory,
                   exchanges, turn_exchanges, writes, reads, dispatches, completions,
                   turns, calls>>

\* Line 87: KeyboardInterrupt during input_prompt is not caught.
PromptInterrupt ==
    /\ pc = "AwaitingInput"
    /\ request = NoRequest
    /\ reads' = Count(reads)
    /\ pc' = "Terminated"
    /\ log' = Record(log, Outcome("prompt_interrupt"))
    /\ UNCHANGED <<side, request, files_arg, no_files, auto_files, session_files, openrouter,
                   engines, chat_files, completer_files, context, request_token_size,
                   model_name, current_model_name, langchain_model, chain, memory,
                   exchanges, turn_exchanges, writes, dispatches, completions, turns, calls>>

\* Line 94: generate_files_context raises on a file of the set; the call is
\* in no try block, so the exception leaves the loop and the command.
TurnContextError ==
    \E inp \in Inputs :
        /\ TakeInput(inp)
        /\ parse_result(inp) # "BREAK"
        /\ chat_files' = parse_files(inp, chat_files)
        /\ chat_files' # {}
        /\ pc' = "Crashed"
        /\ UNCHANGED <<writes, model_name, calls>>
        /\ log' = Record(log, Entry("context_error", inp))
        /\ UNCHANGED <<side, request, files_arg, no_files, auto_files, session_files,
                       openrouter, engines, completer_files, context,
                       request_token_size, current_model_name,
                       langchain_model, chain, memory, exchanges, turn_exchanges,
                       dispatches, completions>>

\* The runs explored are those of at most MaxTurns loop iterations.
InBudget == turns < MaxTurns

Next ==
    \/ Setup
    \/ InBudget /\ TurnBreak
    \/ InBudget /\ TurnContinue
    \/ InBudget /\ TurnText
    \/ InBudget /\ TurnContextError
    \/ DispatchComplete
    \/ DispatchInterrupt
    \/ PromptInterrupt

Spec == Init /\ [][Next]_vars

\* Runs of any length of a command given a request. The loop runs while it can,
\* chain.run returns or is interrupted, and it is not interrupted forever.
LiveInit == Init /\ request # NoRequest

LiveNext ==
    \/ Setup
    \/ TurnBreak
    \/ TurnContinue
    \/ TurnText
    \/ TurnContextError
    \/ DispatchComplete
    \/ DispatchInterrupt

LiveSpec ==
    /\ LiveInit
    /\ [][LiveNext]_vars
    /\ WF_vars(Setup \/ TurnBreak \/ TurnContinue \/ TurnText)
    /\ WF_vars(DispatchComplete \/ DispatchInterrupt)
    /\ SF_vars(DispatchComplete)

--------------------------------------------------------------------------
(* A call of Coder.get_llm_model_name on its own *)

Capacities == {model_options(r)[i][2] : r \in BOOLEAN, i \in 1..2} \cup
              {model_options(FALSE)[i][2] : i \in 3..4}

\* Sizes around the largest size each tier accepts, the two sizes of the
\* worked scenarios, and sizes below and above every tier.
TokenSizes ==
    {0, 1000, 7800, 8000, 40000} \cup
    {(c * 100) \div 105 + d : c \in Capacities, d \in (0 - MaxDelta)..MaxDelta}

SelInit ==
    /\ pc = "SelCall"
    /\ openrouter \in BOOLEAN
    /\ engines \in SUBSET EngineNames
    /\ request_token_size \in TokenSizes
    /\ request = NoRequest
    /\ files_arg = {}
    /\ no_files = TRUE
    /\ auto_files = {}
    /\ session_files = Absent
    /\ Blank
    /\ SideIdle

SelCall ==
    /\ pc = "SelCall"
    /\ model_name' = get_llm_model_name(openrouter, engines, request_token_size)
    /\ pc' = "SelDone"
    /\ UNCHANGED <<side, request, files_arg, no_files, auto_files, session_files, openrouter,
                   engines, chat_files, completer_files, context, request_token_size,
                   current_model_name, langchain_model, chain, memory, exchanges,
                   turn_exchanges, writes, reads, dispatches, completions, log, turns, calls>>

SelNext == SelCall

SelSpec == SelInit /\ [][SelNext]_vars

--------------------------------------------------------------------------
(* Coder.git_diff_context, run against a versioning backend *)

MaxLines == 2

\* The sidekick command is not running.
LoopIdle ==
    /\ pc = "Idle"
    /\ request = NoRequest
    /\ files_arg = {}
    /\ no_files = TRUE
    /\ auto_files = {}
    /\ session_files = Absent
    /\ openrouter = FALSE
    /\ engines = {}
    /\ request_token_size = 0
    /\ Blank

\* The lines `git diff --name-status` can print, split at the tabs: a status
\* (a rename carries a similarity score) and one path, or two for a rename.
StatusLines ==
    {<<c, f>> : c \in {"A", "M", "D"}, f \in FileNames}
    \cup {<<"R100", p[1], p[2]>> : p \in {q \in FileNames \X FileNames : q[1] # q[2]}}

\* status_parts[0][0]
first_char(status) == IF status = "R100" THEN "R" ELSE status

RECURSIVE SeqsUpTo(_, _)
SeqsUpTo(S, n) ==
    IF n = 0 THEN {<< >>}
    ELSE LET shorter == SeqsUpTo(S, n - 1)
         IN shorter \cup {Append(q, x) : q \in {r \in shorter : Len(r) = n - 1}, x \in S}

\* exec_and_get_output(argv), Path(name).read_text(): the operation as it is
\* logged, and the text it returns.
exec(argv) == [op |-> "exec", argv |-> argv]
read_text(name) == [op |-> "read_text", path |-> name]
output(operation) == <<"output of", operation>>

\* Line 145
base_git_diff == <<"git", "diff", "-U10">>

\* Lines 156-161
diff_type_head(staged_files) == "HEAD"
diff_type(staged_files) == IF staged_files # << >> THEN "--cached" ELSE "HEAD"

\* Lines 171-176: a new file; its whole content is included.
added_entry(status_parts, base) ==
    [diffs |-> << <<"## New file added: ", status_parts[2]>>,
                  output(read_text(status_parts[2])) >>,
     ops |-> << read_text(status_parts[2]) >>]

\* Lines 177-181: a renamed file; both names, and the diff of the new one.
renamed_entry_as_two(status_parts, base) ==
    [diffs |-> << <<"## File deleted: ", status_parts[2]>>,
                  <<"## File changed: ", status_parts[3]>>,
                  output(exec(base_git_diff \o <<base, "--", status_parts[3]>>)) >>,
     ops |-> << exec(base_git_diff \o <<base, "--", status_parts[3]>>) >>]
renamed_entry(status_parts, base) ==
    [diffs |-> << <<"## File renamed: ", status_parts[2], " -> ", status_parts[3]>>,
                  output(exec(base_git_diff \o <<base, "--", status_parts[3]>>)) >>,
     ops |-> << exec(base_git_diff \o <<base, "--", status_parts[3]>>) >>]

\* Lines 182-185: a deleted file; the note only.
deleted_entry_with_diff(status_parts, base) ==
    [diffs |-> << <<"## File deleted: ", status_parts[2]>>,
                  output(exec(base_git_diff \o <<base, "--", status_parts[2]>>)) >>,
     ops |-> << exec(base_git_diff \o <<base, "--", status_parts[2]>>) >>]
deleted_entry(status_parts, base) ==
    [diffs |-> << <<"## File deleted: ", status_parts[2]>> >>,
     ops |-> << >>]

\* Lines 186-190: any other status; the diff.
changed_entry(status_parts, base) ==
    [diffs |-> << <<"## File changed: ", status_parts[2]>>,
                  output(exec(base_git_diff \o <<base, "--", status_parts[2]>>)) >>,
     ops |-> << exec(base_git_diff \o <<base, "--", status_parts[2]>>) >>]

\* Lines 169-190: what one status line appends to diffs, and the operations
\* it performs.
status_entry(status_parts, base) ==
    LET status_code == first_char(status_parts[1])
    IN CASE status_code = "A" -> added_entry(status_parts, base)
         [] status_code = "R" -> renamed_entry(status_parts, base)
         [] status_code = "D" -> deleted_entry(status_parts, base)
         [] OTHER -> changed_entry(status_parts, base)

\* Lines 167-190: the for loop over file_status.
RECURSIVE status_entries(_, _, _)
status_entries(file_status, base, i) ==
    IF i > Len(file_status) THEN [diffs |-> << >>, ops |-> << >>]
    ELSE LET first == status_entry(file_status[i], base)
             rest == status_entries(file_status, base, i + 1)
         IN [diffs |-> first.diffs \o rest.diffs, ops |-> first.ops \o rest.ops]

\* Lines 142-192. The result is the list that "\n".join makes one text of.
git_diff_context(commit, files, staged_files, file_status) ==
    IF commit # None
    THEN LET show == exec(<<"git", "show", "--format=%B", commit>>)
         IN [result |-> <<output(show)>>, ops |-> <<show>>]
    ELSE LET base == diff_type(staged_files)
             entries == status_entries(file_status, base, 1)
         IN [result |-> entries.diffs,
             ops |-> << exec(<<"git", "diff", "--cached", "--name-only">>),
                        exec(<<"git", "diff", base, "--name-status">> \o files) >>
                     \o entries.ops]

\* A call, and what the backend reports to it: the staged paths, and the
\* status lines for the name-status query the call makes.
DiffInit ==
    /\ LoopIdle
    /\ tree = Idle
    /\ provider = Idle
    /\ \E commit \in {None, "abc123"}, files \in {<< >>, <<"a.py">>},
          staged \in {<< >>, <<"a.py">>, <<"z.py">>},
          lines \in SeqsUpTo(StatusLines, MaxLines) :
          git = [phase |-> "call", commit |-> commit, files |-> files,
                 staged |-> staged, file_status |-> lines,
                 result |-> << >>, ops |-> << >>]

GitDiffContext ==
    /\ git.phase = "call"
    /\ LET r == git_diff_context(git.commit, git.files, git.staged, git.file_status)
       IN git' = [git EXCEPT !.phase = "done", !.result = r.result, !.ops = r.ops]
    /\ UNCHANGED <<loop, tree, provider>>

DiffNext == GitDiffContext

DiffSpec == DiffInit /\ [][DiffNext]_vars

--------------------------------------------------------------------------
(* Properties of the selector, checked under SelSpec *)

\* The tiers of the mode's table as a set of <<name, max_tokens>>.
Tiers(router) == {model_options(router)[i] : i \in DOMAIN model_options(router)}

\* The tiers the call may choose from.
AvailableTiers(router, reported) ==
    {t \in Tiers(router) : t[1] \in supported_engines(router, reported)}

\* max_tokens >= required_tokens * 1.05, exactly.
FitsExactly(max_tokens, required) == max_tokens * 100 >= required * 105

\* max_tokens >= the size the call compares and reports, int(required * 1.05).
FitsReported(max_tokens, required) == max_tokens >= (required * 105) \div 100

ChosenTier == CHOOSE t \in Tiers(openrouter) : t[1] = model_name

\* C1: with a non-empty available set, whenever some available tier has
\* max_tokens >= required_tokens * 1.05, the call returns an available tier
\* that fits and no available tier of strictly smaller capacity fits.
C1_SmallestFittingTier ==
    (pc = "SelDone"
        /\ supported_engines(openrouter, engines) # {}
        /\ \E t \in AvailableTiers(openrouter, engines) :
              FitsExactly(t[2], request_token_size))
    => /\ model_name # None
       /\ ChosenTier \in AvailableTiers(openrouter, engines)
       /\ FitsExactly(ChosenTier[2], request_token_size)
       /\ \A t \in AvailableTiers(openrouter, engines) :
              FitsExactly(t[2], request_token_size) => t[2] >= ChosenTier[2]

\* C2: a returned tier satisfies max_tokens * 100 >= required_tokens * 105.
C2_NeverAcceptsOversize ==
    (pc = "SelDone" /\ model_name # None)
    => FitsExactly(ChosenTier[2], request_token_size)

C4_Scenarios ==
    (pc = "SelDone"
        /\ {t[2] : t \in AvailableTiers(openrouter, engines)} = {8192, 32768})
    => /\ request_token_size = 7800 => (model_name # None /\ ChosenTier[2] = 8192)
       /\ request_token_size = 8000 => (model_name # None /\ ChosenTier[2] = 32768)

C4_Witness ==
    /\ pc = "SelDone"
    /\ ~openrouter
    /\ engines = {"gpt-4", "gpt-4-32k"}
    /\ request_token_size = 8000
    /\ model_name = "gpt-4-32k"

--------------------------------------------------------------------------
(* Properties of the sidekick loop, checked under Spec *)

LastLog == log[Len(log)]
LastWrite == writes[Len(writes)]

\* The last two steps were turns that handled a control command through to
\* the continue of line 103, and each changed chat.files.
TwoFileSetChanges ==
    /\ Len(log) >= 2
    /\ \A i \in {Len(log) - 1, Len(log)} :
          log[i].ev = "continue" /\ log[i].before # log[i].after

\* C5 as stated: no Session.write stores a files value equal, as a set, to
\* the one persisted in the Session Store at the time of the write.
C5_NoWriteOfPersistedSet ==
    [][writes' # writes => writes'[Len(writes')] # session_files]_vars

\* C5, amended: the Session Store is written only in a turn whose active
\* file set differs from the set the loop last synchronised (completer.files:
\* the initial set, or the set of the last write), and the value written is
\* the new active set; no write stores a value equal to that synchronised set.
C5_WriteOnlyOnChange ==
    [][writes' # writes =>
          /\ writes' = Append(writes, chat_files')
          /\ chat_files' # completer_files
          /\ session_files' = chat_files'
          /\ completer_files' = chat_files']_vars

C5_Witness ==
    /\ writes # << >>
    /\ LastWrite = chat_files
    /\ session_files = chat_files
    /\ files_arg # {}
    /\ pc = "AwaitingInput"

C7_InterruptThenNewTurn ==
    [][(log # << >> /\ LastLog.ev = "interrupt") =>
          /\ pc = "AwaitingInput"
          /\ dispatches' # dispatches => reads' = reads + 1]_vars

\* C8: right after an interrupt during chain.run, every memory object holds
\* what it held when the turn started, the completed exchanges recorded are
\* those of the completed dispatches only, and the chain is attached to the
\* memory object created at setup.
C8_MemoryUntouchedByInterrupt ==
    (log # << >> /\ LastLog.ev = "interrupt") =>
        /\ exchanges = turn_exchanges
        /\ exchanges[1] = completions
        /\ memory = 1
        /\ chain.memory = memory

C8_Witness ==
    /\ log # << >>
    /\ LastLog.ev = "interrupt"
    /\ completions = 1
    /\ \E i \in DOMAIN log : log[i].rebuilt

\* C9: in a run given a request the terminal is never read, at most one
\* dispatch completes, and the completion is the last step of the run.
C9_RunOnce ==
    request # NoRequest =>
        /\ reads = 0
        /\ completions <= 1
        /\ completions = 1 => (pc = "Terminated" /\ LastLog.ev = "complete")

C9_Witness ==
    /\ request # NoRequest
    /\ completions = 1
    /\ dispatches = 2
    /\ pc = "Terminated"

\* C10: a turn for which the selector returns None is not dispatched and no
\* handle is built for it: the loop is back in AwaitingInput with the model
\* name, handle and chain it had before the turn.
C10_UnavailableNotDispatched ==
    [][(pc = "AwaitingInput" /\ log' # log /\ log'[Len(log')].ev = "text"
            /\ model_name' = None) =>
          /\ pc' = "AwaitingInput"
          /\ dispatches' = dispatches
          /\ UNCHANGED <<current_model_name, langchain_model, chain>>]_vars

\* C11: a turn whose context rebuild raises ends with the loop in
\* AwaitingInput (the error does not leave the loop) and nothing dispatched.
C11_ContextErrorAbortsTurnOnly ==
    [][(log' # log /\ log'[Len(log')].ev = "context_error") =>
          /\ pc' = "AwaitingInput"
          /\ dispatches' = dispatches]_vars

\* C15: every dispatch is made with the name the selector returns for the
\* size of the context of the current file set: model_name, current_model_name,
\* the handle and the chain are all for that name; the handle and chain are
\* rebuilt (with a second selector call) exactly when that name differs from
\* current_model_name, and the chain keeps the memory created at setup.
C15_DispatchUsesSelectedModel ==
    [][(pc = "AwaitingInput" /\ pc' = "Processing") =>
          LET size == PromptTokens + SumTokens(chat_files') + DEFAULT_MEMORY_TOKENS
              chosen == get_llm_model_name(openrouter, engines, size)
          IN /\ context' = chat_files'
             /\ request_token_size' = size
             /\ model_name' = chosen
             /\ current_model_name' = chosen
             /\ langchain_model' = chosen
             /\ chain' = [model |-> chosen, memory |-> 1]
             /\ memory' = 1
             /\ chosen = current_model_name =>
                   /\ UNCHANGED <<langchain_model, chain>>
                   /\ calls'.choose_model = calls.choose_model + 1
             /\ chosen # current_model_name =>
                   calls'.choose_model = calls.choose_model + 2]_vars

C15_Witness ==
    /\ pc = "Processing"
    /\ model_name = "gpt-3.5-turbo-16k"
    /\ completions = 1
    /\ \E i \in DOMAIN log : log[i].rebuilt /\ log[i].selected = "gpt-3.5-turbo-16k"

\* C17: right after setup the file set is the explicit files if any (no
\* Session.read, no auto selection); else, unless --no-files, the persisted
\* files if non-empty (one Session.read) or else the auto-selected files; else
\* the empty set (no Session.read); and nothing has been written.
C17_InitialFileSet ==
    (pc = "AwaitingInput" /\ log = << >>) =>
        /\ completer_files = chat_files
        /\ context = chat_files
        /\ writes = << >>
        /\ files_arg # {} =>
              /\ chat_files = files_arg
              /\ calls.session_read = 0 /\ calls.auto_file_context = 0
        /\ (files_arg = {} /\ ~no_files /\ session_files \notin {Absent, {}}) =>
              /\ chat_files = session_files
              /\ calls.session_read = 1 /\ calls.auto_file_context = 0
        /\ (files_arg = {} /\ ~no_files /\ session_files \in {Absent, {}}) =>
              /\ chat_files = auto_files
              /\ calls.session_read = 1 /\ calls.auto_file_context = 1
        /\ (files_arg = {} /\ no_files) =>
              /\ chat_files = {}
              /\ calls.session_read = 0 /\ calls.auto_file_context = 0

C17_Witness ==
    /\ pc = "AwaitingInput"
    /\ log = << >>
    /\ files_arg = {}
    /\ ~no_files
    /\ session_files = {"a.py"}
    /\ auto_files = {"b.py"}
    /\ chat_files = {"a.py"}

\* C18: in an interactive run a turn whose input is empty ends in
\* AwaitingInput with nothing written, selected, rebuilt or dispatched and
\* with the file set, the model name and the memory as they were.
C18_EmptyTurnNoEffect ==
    [][(request = NoRequest /\ pc = "AwaitingInput" /\ log' # log
            /\ log'[Len(log')].kind = "empty") =>
          /\ pc' = "AwaitingInput"
          /\ calls' = calls
          /\ UNCHANGED <<writes, session_files, dispatches, chat_files,
                         completer_files, model_name, current_model_name,
                         langchain_model, chain, memory, exchanges>>]_vars

\* C20: a run given a request ends, whatever the request parses to.
C20_RequestRunEnds == <>(pc \in {"Terminated", "Crashed"})

--------------------------------------------------------------------------
(* Coder.generate_directory_structure, run on a directory tree *)

\* The most entries the directory passed to the call holds.
MaxItems == 2

\* The names of the entries, and the lines an ignore file can hold. A
\* directory without an ignore file has no lines (gitignore = << >>).
TreeFileNames == {"a.py", "b.py"}
TreeDirNames == {"x", "y"}
IgnoreFiles == {<< >>, <<"*">>, <<"a.py">>}

TreeFiles ==
    {[name |-> n, kind |-> "file", gitignore |-> << >>, items |-> << >>] :
        n \in TreeFileNames}

TreeDirs ==
    {[name |-> n, kind |-> "dir", gitignore |-> g, items |-> it] :
        n \in TreeDirNames, g \in IgnoreFiles, it \in SeqsUpTo(TreeFiles, 1)}

\* The entries of one directory have different names.
DistinctNames(items) ==
    \A i, j \in 1..Len(items) : items[i].name = items[j].name => i = j

Trees ==
    {[name |-> "r", kind |-> "dir", gitignore |-> g, items |-> it] :
        g \in IgnoreFiles,
        it \in {q \in SeqsUpTo(TreeDirs \cup TreeFiles, MaxItems) : DistinctNames(q)}}

\* Line 35, 39: fnmatch.fnmatch(base_path.name, pattern), for the patterns
\* of IgnoreFiles and of the caller.
fnmatch(name, pattern) == pattern = "*" \/ pattern = name

\* Line 37: base_path.iterdir(); the ignore file is an entry of its
\* directory as well.
iterdir(node) ==
    IF node.gitignore # << >>
    THEN <<[name |-> ".gitignore", kind |-> "file", gitignore |-> << >>, items |-> << >>]>>
         \o node.items
    ELSE node.items

\* Line 22: the list the call works on, and whether it is the very list
\* object that was passed in.
copy_patterns_shared(ignore_patterns) ==
    [list |-> ignore_patterns, shared |-> ignore_patterns # << >>]
copy_patterns(ignore_patterns) ==
    [list |-> ignore_patterns, shared |-> FALSE]

\* Lines 20-42. path is base_path as the names from the top directory down;
\* the result is the structure, line by line, and the content of the list
\* object that was passed in as it is when the call returns.
RECURSIVE generate_directory_structure(_, _, _, _, _)
RECURSIVE structure_of_items(_, _, _, _, _, _)
generate_directory_structure(node, path, passed, use_gitignore, indent) ==
    LET own == copy_patterns(passed)
        ignore_patterns == IF use_gitignore THEN own.list \o node.gitignore ELSE own.list
        ignored == \E k \in 1..Len(ignore_patterns) : fnmatch(node.name, ignore_patterns[k])
        line == [indent |-> indent,
                 text |-> IF node.kind = "dir" THEN "- [Directory] " ELSE "- [File] ",
                 name |-> node.name,
                 path |-> path]
        below == IF node.kind = "dir" /\ ~ignored
                 THEN structure_of_items(iterdir(node), path, ignore_patterns,
                                         use_gitignore, indent + 1, 1)
                 ELSE [structure |-> << >>, passed |-> ignore_patterns]
    IN [structure |-> IF ignored THEN << >> ELSE <<line>> \o below.structure,
        passed |-> IF own.shared THEN below.passed ELSE passed]

\* Lines 37-38: the loop over the entries; every call is handed the same
\* list object.
structure_of_items(items, path, ignore_patterns, use_gitignore, indent, i) ==
    IF i > Len(items) THEN [structure |-> << >>, passed |-> ignore_patterns]
    ELSE LET first == generate_directory_structure(items[i], Append(path, items[i].name),
                                                   ignore_patterns, use_gitignore, indent)
             rest == structure_of_items(items, path, first.passed, use_gitignore,
                                        indent, i + 1)
         IN [structure |-> first.structure \o rest.structure, passed |-> rest.passed]

TreeInit ==
    /\ LoopIdle
    /\ git = Idle
    /\ provider = Idle
    /\ \E t \in Trees, ip \in {<< >>, <<"b.py">>}, ug \in BOOLEAN :
          tree = [phase |-> "call", path |-> t, ignore_patterns |-> ip,
                  use_gitignore |-> ug, structure |-> << >>, caller_list |-> ip]

\* One call from outside, with indent 0.
GenerateDirectoryStructure ==
    /\ tree.phase = "call"
    /\ LET r == generate_directory_structure(tree.path, <<tree.path.name>>,
                                             tree.ignore_patterns, tree.use_gitignore, 0)
       IN tree' = [tree EXCEPT !.phase = "done", !.structure = r.structure,
                               !.caller_list = r.passed]
    /\ UNCHANGED <<loop, git, provider>>

TreeNext == GenerateDirectoryStructure

TreeSpec == TreeInit /\ [][TreeNext]_vars

--------------------------------------------------------------------------
(* Coder.get_openai_supported_engines and its cache, over the calls of one
   process *)

\* The most selector calls of one process.
MaxCalls == 3

\* The credentials a configuration can hold, and the engine ids the provider
\* reports for each.
ApiKeys == {"sk-1", "sk-2"}
KeyEngines(key) ==
    IF key = "sk-1" THEN EngineNames ELSE {"gpt-3.5-turbo", "gpt-3.5-turbo-16k"}

\* What read_config() returns: the provider key, and whether a gateway key
\* is present.
Configs == [openai_api_key : ApiKeys, openrouter_api_key : BOOLEAN]

\* The cache functools.lru_cache keeps for a function without parameters:
\* one entry, for the empty argument list.
EmptyCache == [filled |-> FALSE, value |-> {}]

\* Lines 44-53: the cached value if there is one; otherwise the body runs,
\* queries the provider with the key of the configuration, and its result
\* is kept.
get_openai_supported_engines(cache, config) ==
    IF cache.filled
    THEN [value |-> cache.value, cache |-> cache, queried |-> << >>]
    ELSE [value |-> KeyEngines(config.openai_api_key),
          cache |-> [filled |-> TRUE, value |-> KeyEngines(config.openai_api_key)],
          queried |-> <<config.openai_api_key>>]

CacheInit ==
    /\ LoopIdle
    /\ git = Idle
    /\ tree = Idle
    /\ \E cfg \in Configs :
          provider = [phase |-> "running", config |-> cfg, cache |-> EmptyCache,
                      queries |-> << >>, used |-> {}, calls |-> 0,
                      supported |-> {}, model_name |-> None]

\* Lines 98-130 with no gateway key in the configuration (lines 108-116).
DirectCall ==
    /\ provider.phase = "running"
    /\ provider.calls < MaxCalls
    /\ ~provider.config.openrouter_api_key
    /\ \E token_size \in {1000, 9000} :
          LET lookup == get_openai_supported_engines(provider.cache, provider.config)
          IN provider' = [provider EXCEPT
                !.cache = lookup.cache,
                !.queries = @ \o lookup.queried,
                !.used = @ \cup {provider.config.openai_api_key},
                !.calls = @ + 1,
                !.supported = lookup.value,
                !.model_name = first_fit(model_options(FALSE), lookup.value,
                                         buffer(token_size), 1)]
    /\ UNCHANGED <<loop, git, tree>>

\* Lines 98-130 with a gateway key in the configuration (lines 101-107).
GatewayCall ==
    /\ provider.phase = "running"
    /\ provider.calls < MaxCalls
    /\ provider.config.openrouter_api_key
    /\ \E token_size \in {1000, 9000} :
          provider' = [provider EXCEPT
                !.calls = @ + 1,
                !.supported = TierNames(TRUE),
                !.model_name = first_fit(model_options(TRUE), TierNames(TRUE),
                                         buffer(token_size), 1)]
    /\ UNCHANGED <<loop, git, tree>>

\* The configuration file changes between two calls; line 48 and line 100
\* read it anew in every call.
ConfigChange ==
    /\ provider.phase = "running"
    /\ \E cfg \in Configs \ {provider.config} :
          provider' = [provider EXCEPT !.config = cfg]
    /\ UNCHANGED <<loop, git, tree>>

CacheNext == DirectCall \/ GatewayCall \/ ConfigChange

CacheSpec == CacheInit /\ [][CacheNext]_vars

--------------------------------------------------------------------------
(* Properties of Coder.git_diff_context, checked under DiffSpec *)

IsHeader(part) ==
    part[1] \in {"## New file added: ", "## File renamed: ", "## File deleted: ",
                 "## File changed: "}

\* The entries of the result, each by its header line.
Headers == SelectSeq(git.result, IsHeader)

\* The paths a header names.
HeaderPaths(h) == IF Len(h) = 2 THEN <<h[2]>> ELSE <<h[2], h[4]>>

\* C12: without a commit the result has one entry per reported status line,
\* in the reported order, each naming the path of its line (a rename: its
\* old and new path, in one entry).
C12_OneEntryPerLineInOrder ==
    (git.phase = "done" /\ git.commit = None) =>
        /\ Len(Headers) = Len(git.file_status)
        /\ \A i \in 1..Len(Headers) : HeaderPaths(Headers[i]) = Tail(git.file_status[i])

C12_Witness ==
    /\ git.phase = "done"
    /\ git.commit = None
    /\ git.file_status = << <<"R100", "a.py", "b.py">>, <<"D", "a.py">> >>
    /\ Len(Headers) = 2

\* The reads and diff calls the claim allows for one status line.
AllowedOps(line, base) ==
    CASE line[1] = "D" -> << >>
      [] line[1] = "A" -> << [op |-> "read_text", path |-> line[2]] >>
      [] line[1] = "R100" ->
            << [op |-> "exec", argv |-> <<"git", "diff", "-U10", base, "--", line[3]>>] >>
      [] line[1] = "M" ->
            << [op |-> "exec", argv |-> <<"git", "diff", "-U10", base, "--", line[2]>>] >>

RECURSIVE AllAllowedOps(_, _, _)
AllAllowedOps(lines, base, i) ==
    IF i > Len(lines) THEN << >>
    ELSE AllowedOps(lines[i], base) \o AllAllowedOps(lines, base, i + 1)

\* C13: after the two queries that open a build, the reads and diff calls are
\* exactly, line by line: none for a deleted path, one read for an added path
\* (its content follows its header in the result), one diff of the new path
\* for a rename, one diff with -U10 of the path for a modified one.
C13_OpsByStatus ==
    (git.phase = "done" /\ git.commit = None) =>
        /\ \E base \in {"--cached", "HEAD"} :
              SubSeq(git.ops, 3, Len(git.ops)) = AllAllowedOps(git.file_status, base, 1)
        /\ \A i \in 1..Len(git.file_status) :
              git.file_status[i][1] = "A" =>
                 \E j \in 1..(Len(git.result) - 1) :
                    /\ git.result[j] = <<"## New file added: ", git.file_status[i][2]>>
                    /\ git.result[j + 1] =
                          <<"output of", [op |-> "read_text", path |-> git.file_status[i][2]]>>

C13_Witness ==
    /\ git.phase = "done"
    /\ git.commit = None
    /\ git.file_status = << <<"D", "a.py">>, <<"A", "b.py">> >>
    /\ Len(git.ops) = 3

\* C19: without a commit one base is used for the status listing and for
\* every diff of the build: --cached if the backend reports any staged path
\* (in `files` or not), else HEAD. With a commit the result is the output of
\* git show and no other query is made.
C19_OneDiffBase ==
    git.phase = "done" =>
        /\ git.commit # None =>
              LET show == [op |-> "exec",
                           argv |-> <<"git", "show", "--format=%B", git.commit>>]
              IN git.ops = <<show>> /\ git.result = << <<"output of", show>> >>
        /\ git.commit = None =>
              LET base == IF git.staged # << >> THEN "--cached" ELSE "HEAD"
              IN /\ git.ops[1] = [op |-> "exec",
                                  argv |-> <<"git", "diff", "--cached", "--name-only">>]
                 /\ git.ops[2] = [op |-> "exec",
                                  argv |-> <<"git", "diff", base, "--name-status">>
                                           \o git.files]
                 /\ \A i \in 3..Len(git.ops) :
                       git.ops[i].op = "exec" =>
                          SubSeq(git.ops[i].argv, 1, 5) = <<"git", "diff", "-U10", base, "--">>

C19_Witness ==
    /\ git.phase = "done"
    /\ git.commit = None
    /\ git.staged = <<"z.py">>
    /\ git.files = <<"a.py">>
    /\ git.file_status = << <<"M", "a.py">> >>
    /\ git.ops[3] = [op |-> "exec",
                     argv |-> <<"git", "diff", "-U10", "--cached", "--", "a.py">>]

--------------------------------------------------------------------------
(* Properties of Coder.generate_directory_structure, checked under TreeSpec *)

IsPrefix(p, q) == Len(p) <= Len(q) /\ SubSeq(q, 1, Len(p)) = p

\* The lines of a structure for the entries that are not in the subtree at
\* the path `top`.
OutsideOf(structure, top) ==
    SelectSeq(structure, LAMBDA l : ~IsPrefix(top, l.path))

\* The structure of the same call on the same tree, had the i-th entry of the
\* directory no ignore file.
StructureWithoutIgnoreFile(i) ==
    generate_directory_structure([tree.path EXCEPT !.items[i].gitignore = << >>],
                                 <<tree.path.name>>, tree.ignore_patterns,
                                 tree.use_gitignore, 0).structure

\* C14: the lines for every entry outside a directory's subtree are what they
\* would be without that directory's ignore file, and the list the caller
\* passed in holds after the call what it held before.
C14_IgnoreFileScopedToSubtree ==
    tree.phase = "done" =>
        /\ tree.caller_list = tree.ignore_patterns
        /\ \A i \in 1..Len(tree.path.items) :
              tree.path.items[i].kind = "dir" =>
                 OutsideOf(tree.structure, <<tree.path.name, tree.path.items[i].name>>)
                 = OutsideOf(StructureWithoutIgnoreFile(i),
                             <<tree.path.name, tree.path.items[i].name>>)

\* The first entry is a directory whose ignore file hides everything in it,
\* the second entry is listed, and the caller passed patterns in.
C14_Witness ==
    /\ tree.phase = "done"
    /\ tree.use_gitignore
    /\ tree.ignore_patterns = <<"b.py">>
    /\ Len(tree.path.items) = 2
    /\ tree.path.items[1].kind = "dir"
    /\ tree.path.items[1].gitignore = <<"*">>
    /\ \A k \in 1..Len(tree.structure) : tree.structure[k].name # tree.path.items[1].name
    /\ \E k \in 1..Len(tree.structure) : tree.structure[k].name = tree.path.items[2].name

--------------------------------------------------------------------------
(* Properties of the engine cache, checked under CacheSpec *)

QueriesWith(key) ==
    Cardinality({i \in 1..Len(provider.queries) : provider.queries[i] = key})

\* C16: the provider has been queried exactly once with each credential a
\* direct-mode call was made under, and with no other credential; a call in
\* gateway mode adds no query.
C16_QueriedOncePerCredential ==
    provider.phase = "running" =>
        /\ \A key \in provider.used : QueriesWith(key) = 1
        /\ \A key \in ApiKeys \ provider.used : QueriesWith(key) = 0

\* The parts of C16 the cache does keep: no credential is queried twice, a
\* filled cache is never changed, and only direct-mode calls query.
C16_NeverQueriedTwice ==
    provider.phase = "running" =>
        /\ \A key \in ApiKeys : QueriesWith(key) <= 1
        /\ \A key \in ApiKeys \ provider.used : QueriesWith(key) = 0

C16_FilledCacheKept ==
    [][(provider.phase = "running" /\ provider.cache.filled)
         => provider'.cache = provider.cache /\ provider'.queries = provider.queries]_vars

====
